---- MODULE Spec2Model ----
(***************************************************************************)
(* gpytorch.means.MultitaskMean: a Mean that holds one sub-mean per task   *)
(* and evaluates them into an n x t matrix.                                *)
(*                                                                         *)
(* Mean instances are references into a heap of learnable parameters, so   *)
(* that identity (the same instance in two slots) and deep copies (a fresh *)
(* instance with an equal parameter) are different things.                 *)
(***************************************************************************)
EXTENDS Integers, Sequences, FiniteSets, TLC

\* ------------------------------------------------------------------ bounds
MaxTasks == 3
NumMeans == 2
MaxParam == 1
MaxN == 2

Params == 0..MaxParam
Points == {0, 1}
CallerMeans == 1..NumMeans

SeqsUpTo(S, n) == UNION {[1..k -> S] : k \in 0..n}

\* The input batches of forward: N points, N in 0..MaxN.
Inputs == SeqsUpTo(Points, MaxN)

\* What a caller can pass as base_means: a bare Mean, a list of Means (the same
\* instance may occur twice), or something that is neither (None, a number).
Args ==
    {[kind |-> "mean", items |-> <<m>>] : m \in CallerMeans}
    \cup {[kind |-> "list", items |-> s] : s \in SeqsUpTo(CallerMeans, MaxTasks)}
    \cup {[kind |-> "other", items |-> <<>>]}

VARIABLES
    pc,          \* "start" | "constructed" | "RuntimeError" | "IndexError"
    arg,         \* the base_means argument of __init__
    argTasks,    \* the n_tasks argument of __init__
    heap,        \* instance -> its parameter
    heap0,       \* the heap as __init__ left it
    attrs,       \* the attributes __init__ has set on self
    base_means,  \* self.base_means
    n_tasks,     \* self.n_tasks
    lastInput,   \* the input of the last forward call
    out          \* what the last forward call returned

vars == <<pc, arg, argTasks, heap, heap0, attrs, base_means, n_tasks, lastInput, out>>

\* The parameter each of the caller's means is created with; training moves
\* it anywhere in Params afterwards.
InitParam(m) == m % (MaxParam + 1)

NoResult == [kind |-> "none", n |-> 0, t |-> 0, rows |-> <<>>]
CatError == [kind |-> "error", n |-> 0, t |-> 0, rows |-> <<>>]

\* ------------------------------------------------------------- __init__

\* if isinstance(base_means, Mean): base_means = [base_means]
Wrap(a) == IF a.kind = "mean" THEN [kind |-> "list", items |-> a.items] ELSE a

ValidLoose(a, n) == a.kind = "list" /\ (Len(a.items) = 1 \/ Len(a.items) <= n)

\* the negation of the condition that raises RuntimeError
Valid(a, n) == a.kind = "list" /\ (Len(a.items) = 1 \/ Len(a.items) = n)

ListCompOffByOne(bm, n) ==
    IF \E i \in 0..(n - 1) : i + 1 > Len(bm)
    THEN [status |-> "IndexError", list |-> <<>>]
    ELSE [status |-> "ok", list |-> [i \in 1..n |-> bm[i]]]

\* [base_means[i] for i in range(n_tasks - 1)]: indexes base_means itself
ListComp(bm, n) ==
    IF \E i \in 0..(n - 2) : i + 1 > Len(bm)
    THEN [status |-> "IndexError", list |-> <<>>]
    ELSE [status |-> "ok", list |-> [i \in 1..(n - 1) |-> bm[i]]]

RECURSIVE DeepCopyItems(_, _, _)
DeepCopyItems(items, memo, h) ==
    IF items = <<>> THEN [list |-> <<>>, heap |-> h]
    ELSE LET x == Head(items) IN
         IF x \in DOMAIN memo
         THEN LET r == DeepCopyItems(Tail(items), memo, h)
              IN [list |-> <<memo[x]>> \o r.list, heap |-> r.heap]
         ELSE LET y == Len(h) + 1
                  r == DeepCopyItems(Tail(items), (x :> y) @@ memo, Append(h, h[x]))
              IN [list |-> <<y>> \o r.list, heap |-> r.heap]

ShallowCopy(lst, h) == [list |-> lst, heap |-> h]

\* copy.deepcopy of a list of Means: one fresh instance per distinct instance
deepcopy(lst, h) == DeepCopyItems(lst, <<>>, h)

ExpandCopyAll(bm, n, h) ==
    LET c == deepcopy(bm, h)
    IN [status |-> "ok", list |-> c.list, heap |-> c.heap]

ExpandRepeat(bm, n, h) ==
    IF Len(bm) = 1
    THEN [status |-> "ok", list |-> [i \in 1..n |-> bm[1]], heap |-> h]
    ELSE [status |-> "ok", list |-> bm, heap |-> h]

\* if len(base_means) == 1: base_means = base_means + deepcopy([...])
Expand(bm, n, h) ==
    IF Len(bm) = 1
    THEN LET picked == ListComp(bm, n) IN
         IF picked.status # "ok"
         THEN [status |-> picked.status, list |-> <<>>, heap |-> h]
         ELSE LET c == deepcopy(picked.list, h)
              IN [status |-> "ok", list |-> bm \o c.list, heap |-> c.heap]
    ELSE [status |-> "ok", list |-> bm, heap |-> h]

Raised(kind, h) ==
    [status |-> kind, attrs |-> {}, base_means |-> <<>>, n_tasks |-> -1, heap |-> h]

MultitaskMeanInit(a, n, h) ==
    LET wrapped == Wrap(a) IN
    IF ~Valid(wrapped, n) THEN Raised("RuntimeError", h)
    ELSE LET e == Expand(wrapped.items, n, h) IN
         IF e.status # "ok" THEN Raised(e.status, h)
         ELSE [status |-> "constructed", attrs |-> {"base_means", "n_tasks"},
               base_means |-> e.list, n_tasks |-> n, heap |-> e.heap]

\* -------------------------------------------------------------- forward

\* A sub-mean applied to a batch: one value per input, nothing written.
SubMeanCall(h, m, input) ==
    [val |-> [i \in 1..Len(input) |-> h[m] + input[i]], heap |-> h]

\* tensor.unsqueeze(-1): a vector of N values becomes an N x 1 matrix
Unsqueeze(vec) ==
    [kind |-> "tensor", n |-> Len(vec), t |-> 1, rows |-> [i \in 1..Len(vec) |-> <<vec[i]>>]]

RECURSIVE CatRows(_, _)
CatRows(tensors, i) ==
    IF tensors = <<>> THEN <<>>
    ELSE Head(tensors).rows[i] \o CatRows(Tail(tensors), i)

RECURSIVE SumT(_)
SumT(tensors) == IF tensors = <<>> THEN 0 ELSE Head(tensors).t + SumT(Tail(tensors))

\* torch.cat(tensors, dim=-1); an empty list of tensors is an error
Cat(tensors) ==
    IF tensors = <<>> THEN CatError
    ELSE [kind |-> "tensor", n |-> tensors[1].n, t |-> SumT(tensors),
          rows |-> [i \in 1..tensors[1].n |-> CatRows(tensors, i)]]

\* [sub_mean(input).unsqueeze(-1) for sub_mean in self.base_means]
RECURSIVE ApplyAll(_, _, _)
ApplyAll(h, bm, input) ==
    IF bm = <<>> THEN [tensors |-> <<>>, heap |-> h]
    ELSE LET c == SubMeanCall(h, Head(bm), input)
             r == ApplyAll(c.heap, Tail(bm), input)
         IN [tensors |-> <<Unsqueeze(c.val)>> \o r.tensors, heap |-> r.heap]

Reverse(s) == [i \in 1..Len(s) |-> s[Len(s) + 1 - i]]

forwardReversed(h, bm, input) ==
    LET a == ApplyAll(h, bm, input)
    IN [out |-> Cat(Reverse(a.tensors)), heap |-> a.heap]

forwardInPlace(h, bm, input) ==
    LET a == ApplyAll(h, bm, input)
    IN [out |-> Cat(a.tensors),
        heap |-> IF bm = <<>> THEN a.heap
                 ELSE [a.heap EXCEPT ![bm[1]] = (@ + 1) % (MaxParam + 1)]]

RECURSIVE RunningSum(_, _)
RunningSum(tensors, acc) ==
    IF tensors = <<>> THEN <<>>
    ELSE LET x == Head(tensors)
             y == [x EXCEPT !.rows = [i \in 1..x.n |-> <<x.rows[i][1] + acc[i]>>]]
         IN <<y>> \o RunningSum(Tail(tensors), [i \in 1..x.n |-> y.rows[i][1]])

forwardSharedBuffer(h, bm, input) ==
    LET a == ApplyAll(h, bm, input)
    IN [out |-> Cat(RunningSum(a.tensors, [i \in 1..Len(input) |-> 0])), heap |-> a.heap]

forward(h, bm, input) ==
    LET a == ApplyAll(h, bm, input)
    IN [out |-> Cat(a.tensors), heap |-> a.heap]

\* ------------------------------------------------------------ behaviour

Init ==
    /\ pc = "start"
    /\ arg \in Args
    /\ argTasks \in 0..MaxTasks
    /\ heap = [m \in CallerMeans |-> InitParam(m)]
    /\ heap0 = heap
    /\ attrs = {}
    /\ base_means = <<>>
    /\ n_tasks = -1
    /\ lastInput = <<>>
    /\ out = NoResult

\* MultitaskMean(base_means, n_tasks)
Construct ==
    /\ pc = "start"
    /\ LET r == MultitaskMeanInit(arg, argTasks, heap) IN
        /\ pc' = r.status
        /\ attrs' = r.attrs
        /\ base_means' = r.base_means
        /\ n_tasks' = r.n_tasks
        /\ heap' = r.heap
        /\ heap0' = r.heap
    /\ UNCHANGED <<arg, argTasks, lastInput, out>>

\* self(input)
Forward(input) ==
    /\ pc = "constructed"
    /\ LET r == forward(heap, base_means, input) IN
        /\ out' = r.out
        /\ heap' = r.heap
    /\ lastInput' = input
    /\ UNCHANGED <<pc, arg, argTasks, heap0, attrs, base_means, n_tasks>>

\* Training writes the parameter of the sub-mean in one slot; the result of an
\* earlier forward call no longer describes the object.
Mutate(slot, v) ==
    /\ pc = "constructed"
    /\ slot \in 1..Len(base_means)
    /\ heap' = [heap EXCEPT ![base_means[slot]] = v]
    /\ out' = NoResult
    /\ UNCHANGED <<pc, arg, argTasks, heap0, attrs, base_means, n_tasks, lastInput>>

Next ==
    \/ Construct
    \/ \E input \in Inputs : Forward(input)
    \/ \E slot \in 1..Len(base_means), v \in Params : Mutate(slot, v)

Spec == Init /\ [][Next]_vars

\* --------------------------------------------------------------- claims

SinglePrototype == arg.kind = "mean" \/ (arg.kind = "list" /\ Len(arg.items) = 1)

Distinct(s) == \A i, j \in 1..Len(s) : i # j => s[i] # s[j]

\* base_means is neither a single mean nor a list of length 1 or n_tasks
InvalidConfiguration ==
    \/ arg.kind = "other"
    \/ arg.kind = "list" /\ Len(arg.items) # 1 /\ Len(arg.items) # argTasks

\* C1: with n_tasks >= 1 and a single prototype (bare or in a one-element
\* list), construction succeeds with n_tasks sub-means: the first slot is the
\* prototype itself, every other slot a fresh clone, all different instances,
\* each clone starting with the prototype's parameter.
C1_SinglePrototypeExpands ==
    (pc # "start" /\ SinglePrototype /\ argTasks >= 1) =>
        /\ pc = "constructed"
        /\ Len(base_means) = argTasks
        /\ base_means[1] = arg.items[1]
        /\ Distinct(base_means)
        /\ \A t \in 2..argTasks :
            /\ base_means[t] \notin CallerMeans
            /\ heap0[base_means[t]] = heap0[base_means[1]]

\* C2 as stated: whatever base_means and n_tasks were passed, a constructed
\* object has len(base_means) = n_tasks, also after evaluations and mutations.
C2_LengthIsNTasks ==
    pc = "constructed" => Len(base_means) = n_tasks

\* C2 amended: for n_tasks >= 1, a constructed object has len(base_means) =
\* n_tasks = the n_tasks passed, also after evaluations and mutations.
C2_LengthIsNTasksWhenPositive ==
    (pc = "constructed" /\ argTasks >= 1) =>
        /\ attrs = {"base_means", "n_tasks"}
        /\ n_tasks = argTasks
        /\ Len(base_means) = n_tasks

C2_Witness ==
    /\ pc = "constructed"
    /\ argTasks >= 2
    /\ heap # heap0
    /\ out.kind = "tensor"

\* C3: on an object expanded from a single prototype, writing the parameter of
\* the sub-mean in one slot leaves the parameter of every other slot as it was.
C3_MutationIsLocal ==
    [][\A slot \in 1..Len(base_means), v \in Params :
        (SinglePrototype /\ Mutate(slot, v)) =>
            \A j \in 1..Len(base_means) :
                j # slot => heap'[base_means[j]] = heap[base_means[j]]]_vars

C3_Witness ==
    /\ pc = "constructed"
    /\ SinglePrototype
    /\ Len(base_means) >= 2
    /\ heap[base_means[1]] # heap[base_means[2]]

\* C4: an invalid configuration ends construction with RuntimeError and
\* neither base_means nor n_tasks is set on the object.
C4_InvalidConfigurationRaises ==
    (pc # "start" /\ InvalidConfiguration) =>
        /\ pc = "RuntimeError"
        /\ attrs = {}

C4_Witness ==
    /\ pc = "RuntimeError"
    /\ arg.kind = "list"
    /\ Len(arg.items) = 2
    /\ argTasks = 3

\* C5: with n_tasks >= 1, construction fails exactly when the configuration
\* is invalid, and the only error it raises is RuntimeError.
C5_OnlyInvalidConfigurationFails ==
    (pc # "start" /\ argTasks >= 1) =>
        /\ pc # "constructed" <=> InvalidConfiguration
        /\ pc # "constructed" => pc = "RuntimeError"

\* C6: a list of exactly n_tasks distinct means is stored as it is: the same
\* instances in the same order, and no instance is created.
C6_FullListStoredAsIs ==
    (pc = "constructed" /\ arg.kind = "list" /\ Len(arg.items) = argTasks
        /\ Distinct(arg.items)) =>
        /\ base_means = arg.items
        /\ DOMAIN heap = CallerMeans

C6_Witness ==
    /\ pc = "constructed"
    /\ arg.kind = "list"
    /\ Len(arg.items) = argTasks
    /\ argTasks >= 2
    /\ Distinct(arg.items)

Swap(s, a, b) == [s EXCEPT ![a] = s[b], ![b] = s[a]]

\* the output of an object built from the caller's list with slots a and b swapped
SwappedOutput(a, b) ==
    LET c == MultitaskMeanInit([kind |-> "list", items |-> Swap(arg.items, a, b)],
                               argTasks, heap0)
    IN forward(heap, c.base_means, lastInput).out

C8_SlotsNeverAlias ==
    pc = "constructed" => Distinct(base_means)

\* C8 amended: after a successful construction from a bare prototype, a
\* one-element list or a list of pairwise different instances, no two slots
\* hold the same instance.
C8_SlotsDistinctWhenArgsDistinct ==
    (pc = "constructed" /\ Distinct(arg.items)) => Distinct(base_means)

C8_Witness ==
    /\ pc = "constructed"
    /\ SinglePrototype
    /\ Len(base_means) = 2
    /\ base_means[2] \notin CallerMeans

\* C9: a forward call leaves n_tasks, base_means (length, instances, order)
\* and every parameter as they were, and repeats the result of the previous
\* call when the input is the same and no parameter was written in between.
C9_ForwardChangesNothing ==
    [][Forward(lastInput') =>
            /\ heap' = heap
            /\ base_means' = base_means
            /\ n_tasks' = n_tasks
            /\ attrs' = attrs
            /\ (out.kind # "none" /\ lastInput' = lastInput) => out' = out]_vars

C9_Witness ==
    /\ pc = "constructed"
    /\ out.kind = "tensor"
    /\ lastInput # <<>>
    /\ heap # heap0

Perms(n) == {p \in [1..n -> 1..n] : \A i, j \in 1..n : i # j => p[i] # p[j]}

\* the sub-means applied to the input in the order perm, each result kept
\* under its slot
RECURSIVE EvalSlots(_, _, _, _, _)
EvalSlots(h, bm, input, perm, cols) ==
    IF perm = <<>> THEN [cols |-> cols, heap |-> h]
    ELSE LET c == SubMeanCall(h, bm[Head(perm)], input)
         IN EvalSlots(c.heap, bm, input, Tail(perm),
                      (Head(perm) :> Unsqueeze(c.val)) @@ cols)

EvalInOrder(h, bm, input, perm) ==
    LET e == EvalSlots(h, bm, input, perm, <<>>)
    IN [out |-> Cat([t \in 1..Len(bm) |-> e.cols[t]]), heap |-> e.heap]

\* C10: applying the sub-means in any order and assembling the results by
\* slot gives what forward returned, and writes no parameter.
C10_AnyOrderSameResult ==
    (pc = "constructed" /\ out.kind = "tensor") =>
        \A perm \in Perms(Len(base_means)) :
            LET r == EvalInOrder(heap, base_means, lastInput, perm)
            IN r.out = out /\ r.heap = heap

C10_Witness ==
    /\ pc = "constructed"
    /\ out.kind = "tensor"
    /\ Len(base_means) >= 2
    /\ Len(lastInput) >= 1
    /\ heap[base_means[1]] # heap[base_means[2]]

====
